---- MODULE Spec2Model ----
(***************************************************************************)
(* ScryfallService (backend/app/services/scryfall.py): the rate-limited,   *)
(* cached card client and its batch operation, as a state machine.         *)
(*                                                                         *)
(* Every call of fetch_card_data, fetch_rulings or fetch_full_card is a    *)
(* coroutine ("task") of one asyncio event loop.  An action is what one    *)
(* coroutine does between two suspension points (await), which asyncio     *)
(* runs without interleaving.  Python dicts are heap objects: the card     *)
(* cache and the callers hold references into `dicts`.  The upstream's     *)
(* content is fixed per key; whether a request succeeds is not.            *)
(***************************************************************************)
EXTENDS Integers, Sequences, FiniteSets, TLC

\* ---- bounds of the model
MaxTasks == 2        \* coroutines alive at the same time
MaxCalls == 3        \* coroutines created in one behaviour
MaxBatch == 2        \* longest cards list given to batch_fetch_card_data
MaxLatencyMs == 0    \* longest modelled network latency of one request
TickMs == 50         \* granularity of the discrete clock
MaxRulings == 2      \* longest list of rulings the upstream holds for a card

\* ---- program constants
rate_limit_ms == 100     \* __init__(rate_limit_ms = 100)

\* A semaphore that lets two coroutines in.
SemaphoreTwoSlots == 1 + 1

SemaphoreSlots == 1      \* asyncio.Semaphore(1)

VARIABLES
    tasks,            \* slot -> the frame of the coroutine in it (see NewTask)
    ntasks,           \* number of coroutines created so far
    rate_limit_lock,  \* self.rate_limit_lock: the semaphore's free slots
    _card_cache,      \* self._card_cache: query string -> reference into dicts
    _rulings_cache,   \* self._rulings_cache: card id -> list of formatted rulings
    dicts,            \* heap: reference -> the card_metadata dict object
    batch,            \* the frame of the batch_fetch_card_data call
    completed,        \* batch tasks in the order they completed
    now,              \* event loop clock, ms
    nsent,            \* history: number of outbound requests so far
    last_sent,        \* history: clock reading at the latest outbound request
    card_done,        \* history: per name, how the latest finished fetch_card_data ended
    upstream_rulings, \* the upstream's content: card id -> its ruling entries
    client,           \* self.client: "open" until close() is awaited
    app               \* the process that serves the API (main.py): "running" or "stopped"

vars == <<tasks, ntasks, rate_limit_lock, _card_cache, _rulings_cache, dicts,
          batch, completed, now, nsent, last_sent, card_done, upstream_rulings,
          client, app>>

\* ---- the upstream (Scryfall) as the client sees it
\* The query strings the callers use (two spellings the upstream resolves to
\* the same card) and the ids they ask rulings for (the card's, and that of a
\* card without rulings).
CardNames == {"Sol Ring", "sol ring"}
CardIds == {"id-sol", "id-opt"}

\* Malformed arguments: the empty name, the empty id, and the id of a record
\* that came without one (None, as the f-string of line 87 renders it).
MalformedNames == {""}
MalformedIds == {"", "None"}

\* GET cards/named?fuzzy=card resolves the query string to one card.
Named(card) ==
    [name |-> "Sol Ring", id |-> "id-sol", oracle_text |-> "Add two colorless mana."]

NoCard == [name |-> "", id |-> "", oracle_text |-> ""]

\* What the card endpoint can answer to a request for `card`: the card, a
\* non-success status, a body that is not JSON, or no answer (timeout,
\* connection failure).
CardResponses(card) ==
    (IF card \in CardNames
     THEN {[kind |-> "response", status_code |-> 200, json_ok |-> TRUE, data |-> Named(card)]}
     ELSE {}) \cup
    {[kind |-> "response", status_code |-> 404, json_ok |-> TRUE, data |-> NoCard],
     [kind |-> "response", status_code |-> 200, json_ok |-> FALSE, data |-> NoCard],
     [kind |-> "httpx.TransportError", status_code |-> 0, json_ok |-> FALSE, data |-> NoCard]}

Ruling1 == [published_at |-> "2020-01-01", comment |-> "c1"]
Ruling2 == [published_at |-> "2021-06-18", comment |-> "c2"]

\* The rulings Scryfall has: two for the card, none for the other id.
ScryfallRulings ==
    [card_id \in CardIds \cup MalformedIds |->
        IF card_id = "id-sol" THEN <<Ruling2, Ruling1>> ELSE <<>>]

\* The ruling entries the upstream can hold, and the lists of them.
RulingEntries == [published_at : {"2020-01-01", "2021-06-18"}, comment : {"c1", "c2"}]
RulingLists == UNION {[1..n -> RulingEntries] : n \in 0..MaxRulings}

\* GET cards/{card_id}/rulings: the card's rulings, in upstream order.
Rulings(card_id) == upstream_rulings[card_id]

\* What the rulings endpoint can answer; has_data is whether the body has a
\* "data" key (a card without rulings may come without one).
RulingsResponses(card_id) ==
    (IF card_id \in CardIds
     THEN {[kind |-> "response", status_code |-> 200, json_ok |-> TRUE, has_data |-> TRUE, data |-> Rulings(card_id)]}
     ELSE {}) \cup
    {[kind |-> "response", status_code |-> 404, json_ok |-> TRUE, has_data |-> FALSE, data |-> <<>>],
     [kind |-> "response", status_code |-> 200, json_ok |-> FALSE, has_data |-> FALSE, data |-> <<>>],
     [kind |-> "httpx.TransportError", status_code |-> 0, json_ok |-> FALSE, has_data |-> FALSE, data |-> <<>>]}
    \cup IF card_id \in CardIds /\ Rulings(card_id) = <<>>
         THEN {[kind |-> "response", status_code |-> 200, json_ok |-> TRUE, has_data |-> FALSE, data |-> <<>>]}
         ELSE {}

TaskIds == 1..MaxTasks

NoErr == [exc |-> "", key |-> ""]
NoPrior == [outcome |-> "none", reqs |-> 0]
NoHttp == [status_code |-> 0, detail |-> "", escaped |-> ""]

\* The frame of a coroutine.
\*   op: the method; card, card_id: its argument (fetch_full_card fills card_id
\*   from the record); pc: where it is suspended; card_data: reference to the
\*   record it holds; rulings: the list fetch_rulings returned; err: what it
\*   raised; in_batch: created by batch_fetch_card_data; wake: end of its
\*   pacing sleep; status_code: that of the latest response it received (0
\*   before any, and when the request got no response).
\*   caller: "search_card" when the API's search operation made the call, and
\*   http: the response that operation gave.
\*   History kept for the properties: card_reqs and rulings_reqs count its
\*   requests per endpoint; prior is card_done[card] as it was when the
\*   coroutine started.
NewTask(op, card, card_id, in_batch) ==
    [op |-> op, card |-> card, card_id |-> card_id, pc |-> "called",
     card_data |-> 0, rulings |-> <<>>, err |-> NoErr, in_batch |-> in_batch,
     wake |-> 0, status_code |-> 0, card_reqs |-> 0, rulings_reqs |-> 0,
     prior |-> NoPrior, caller |-> "", http |-> NoHttp]

\* A slot not in use: before the coroutine is created, and after its caller
\* took its result.
NoTask == [NewTask("none", "", "", FALSE) EXCEPT !.pc = "none"]

Created == {t \in TaskIds : tasks[t].pc # "none"}
FreeSlots == TaskIds \ Created
Finished == {t \in Created : tasks[t].pc \in {"returned", "raised"}}
InGate == {t \in Created : tasks[t].pc \in {"card_sleep", "card_get", "rulings_sleep", "rulings_get"}}
Waiters == {t \in Created : tasks[t].pc \in {"card_wait", "rulings_wait"}}

\* Coroutines the event loop runs next, before anything else: the tasks
\* create_task has just scheduled, and the caller of a call that just ended.
Called == {t \in Created : tasks[t].pc = "called"}
Responded == {t \in Created : tasks[t].pc = "responded"}
Resuming == {t \in Finished \cup Responded : ~tasks[t].in_batch}
Settled == Called = {} /\ Resuming = {}

\* The free slots, lowest first.
RECURSIVE SlotSeq(_)
SlotSeq(S) ==
    IF S = {} THEN <<>>
    ELSE LET m == CHOOSE x \in S : \A y \in S : x <= y IN <<m>> \o SlotSeq(S \ {m})

\* The callers may make one more direct call.
MayCall == Settled /\ ntasks < MaxCalls /\ FreeSlots # {}

\* The frame of batch_fetch_card_data: its arguments, the slots of its tasks,
\* data, the progress bar's count, how many tasks the as_completed loop has
\* taken, and what it raised.  History: all_cached is whether, at the call,
\* every card was in the card cache and its record's id in the rulings cache.
NoBatch == [state |-> "none", cards |-> <<>>, progress |-> FALSE, ids |-> <<>>,
            data |-> <<>>, pbar |-> 0, next |-> 0, err |-> NoErr, all_cached |-> FALSE]

\* The state after ScryfallService() (lines 10-16), in a running process.
Constructed ==
    /\ tasks = [t \in TaskIds |-> NoTask]
    /\ ntasks = 0
    /\ rate_limit_lock = SemaphoreSlots
    /\ _card_cache = <<>>
    /\ _rulings_cache = <<>>
    /\ dicts = <<>>
    /\ batch = NoBatch
    /\ completed = <<>>
    /\ now = 0
    /\ nsent = 0
    /\ last_sent = 0
    /\ card_done = [c \in CardNames \cup MalformedNames |-> NoPrior]
    /\ client = "open"
    /\ app = "running"

Init ==
    /\ Constructed
    /\ upstream_rulings = ScryfallRulings

\* ---- one coroutine: the code between two awaits

\* The coroutine ends (return or raise); a batch task's completion is queued
\* for whoever awaits it.
Finish(t, tk) ==
    /\ tasks' = [tasks EXCEPT ![t] = tk]
    /\ completed' = IF tk.in_batch THEN Append(completed, t) ELSE completed

\* asyncio.Semaphore.locked(), with `free` slots left.
locked(free) == free = 0

\* The slot kept on leaving the block.
slot_kept(free) == free

\* Semaphore.release() on leaving the `async with` block.
release(free) == free + 1

\* The sleep with the division done on integers: whole seconds only.
sleep_whole_seconds(ms) == (ms \div 1000) * 1000

\* Lines 40 and 86: how long asyncio.sleep(self.rate_limit_ms / 1000) sleeps,
\* in ms.
sleep_ms(ms) == ms

\* `async with self.rate_limit_lock:` entered with `free` slots left, then the
\* coroutine suspends in asyncio.sleep.  With a free slot it is taken at once.
\* When other coroutines already wait, the asyncio version decides whether the
\* newcomer takes the slot or queues behind them: both are kept.
Acquire(t, tk, phase, free) ==
    /\ completed' = completed
    /\ \/ /\ ~locked(free)
          /\ rate_limit_lock' = free - 1
          /\ tasks' = [tasks EXCEPT ![t] =
                 [tk EXCEPT !.pc = phase \o "_sleep", !.wake = now + sleep_ms(rate_limit_ms)]]
       \/ /\ locked(free) \/ Waiters # {}
          /\ rate_limit_lock' = free
          /\ tasks' = [tasks EXCEPT ![t] = [tk EXCEPT !.pc = phase \o "_wait"]]

\* fetch_full_card line 106: the rulings are stored into the dict object
\* card_data refers to.
attach_rulings(d, ref, card_rulings) ==
    [d EXCEPT ![ref] = [rulings |-> card_rulings] @@ @]

\* The return of fetch_rulings with card_rulings: to its caller, or into
\* fetch_full_card lines 106-108.  d is the heap and free the semaphore's
\* slots at this point.
AfterRulings(t, tk, card_rulings, d, free) ==
    /\ rate_limit_lock' = free
    /\ IF tk.op = "fetch_full_card"
       THEN /\ dicts' = attach_rulings(d, tk.card_data, card_rulings)
            /\ Finish(t, [tk EXCEPT !.pc = "returned"])
       ELSE /\ dicts' = d
            /\ Finish(t, [tk EXCEPT !.pc = "returned", !.rulings = card_rulings])

\* The rulings cache never consulted.
rulings_never_cached(card_id) == FALSE

\* Line 81.
rulings_cached(card_id) == card_id \in DOMAIN _rulings_cache

\* The card cache never consulted.
card_never_cached(card) == FALSE

\* Line 36.
card_cached(card) == card \in DOMAIN _card_cache

\* fetch_rulings lines 81-86.
EnterRulings(t, tk, d, free) ==
    IF rulings_cached(tk.card_id)
    THEN AfterRulings(t, tk, _rulings_cache[tk.card_id], d, free)
    ELSE /\ dicts' = d
         /\ Acquire(t, tk, "rulings", free)

\* The return of fetch_card_data with the record `ref`: to its caller, or into
\* fetch_full_card line 105, which runs on without suspending.
AfterCard(t, tk, ref, d, free) ==
    IF tk.op = "fetch_card_data"
    THEN /\ rate_limit_lock' = free
         /\ dicts' = d
         /\ Finish(t, [tk EXCEPT !.card_data = ref, !.pc = "returned"])
    ELSE EnterRulings(t, [tk EXCEPT !.card_data = ref, !.card_id = d[ref].id], d, free)

\* fetch_card_data lines 36-40.
EnterCard(t, tk) ==
    IF card_cached(tk.card)
    THEN /\ AfterCard(t, tk, _card_cache[tk.card], dicts, rate_limit_lock)
         /\ card_done' = [card_done EXCEPT ![tk.card] = [outcome |-> "returned", reqs |-> 0]]
    ELSE /\ dicts' = dicts
         /\ Acquire(t, tk, "card", rate_limit_lock)
         /\ card_done' = card_done

\* The coroutine with frame tk runs for the first time, up to its first await.
Run(t, tk) ==
    /\ IF tk.op = "fetch_rulings"
       THEN /\ EnterRulings(t, tk, dicts, rate_limit_lock)
            /\ card_done' = card_done
       ELSE EnterCard(t, [tk EXCEPT !.prior = card_done[tk.card]])
    /\ UNCHANGED <<upstream_rulings, client, app, _card_cache, _rulings_cache, now, nsent, last_sent>>

\* ---- callers

\* `await card_service.fetch_card_data(card)` and the like: a call runs at once,
\* up to its first await.
CallFetchCardData(card) ==
    /\ MayCall
    /\ ntasks' = ntasks + 1
    /\ Run(SlotSeq(FreeSlots)[1], NewTask("fetch_card_data", card, "", FALSE))
    /\ batch' = batch

CallFetchRulings(card_id) ==
    /\ MayCall
    /\ ntasks' = ntasks + 1
    /\ Run(SlotSeq(FreeSlots)[1], NewTask("fetch_rulings", "", card_id, FALSE))
    /\ batch' = batch

CallFetchFullCard(card) ==
    /\ MayCall
    /\ ntasks' = ntasks + 1
    /\ Run(SlotSeq(FreeSlots)[1], NewTask("fetch_full_card", card, "", FALSE))
    /\ batch' = batch

\* The call has ended and its caller has the result: the frame is gone.
Resume(t) ==
    /\ t \in Resuming
    /\ tasks[t].caller = "search_card" => t \in Responded
    /\ tasks' = [tasks EXCEPT ![t] = NoTask]
    /\ UNCHANGED <<upstream_rulings, client, app, ntasks, rate_limit_lock, _card_cache, _rulings_cache, dicts, batch,
                   completed, now, nsent, last_sent, card_done>>

\* A task made by asyncio.create_task runs for the first time; the event loop
\* runs the tasks in the order they were created.
Start(t) ==
    /\ t \in Called
    /\ \E i \in 1..Len(batch.ids) :
          /\ batch.ids[i] = t
          /\ \A j \in 1..(i - 1) : batch.ids[j] \notin Called
    /\ Run(t, tasks[t])
    /\ UNCHANGED <<ntasks, batch>>

\* A coroutine queued on the semaphore gets the slot a release freed.
Wake(t) ==
    /\ Settled
    /\ t \in Waiters
    /\ ~locked(rate_limit_lock)
    /\ rate_limit_lock' = rate_limit_lock - 1
    /\ tasks' = [tasks EXCEPT ![t] =
           [@ EXCEPT !.pc = IF @ = "card_wait" THEN "card_sleep" ELSE "rulings_sleep",
                     !.wake = now + sleep_ms(rate_limit_ms)]]
    /\ UNCHANGED <<upstream_rulings, client, app, ntasks, _card_cache, _rulings_cache, dicts, batch, completed, now,
                   nsent, last_sent, card_done>>

\* asyncio.sleep(self.rate_limit_ms / 1000) is over: self.client.get(...) is
\* called and the coroutine suspends until the answer.
Send(t) ==
    /\ Settled
    /\ t \in Created
    /\ tasks[t].pc \in {"card_sleep", "rulings_sleep"}
    /\ now >= tasks[t].wake
    /\ tasks' = [tasks EXCEPT ![t] =
           IF @.pc = "card_sleep"
           THEN [@ EXCEPT !.pc = "card_get", !.wake = 0, !.card_reqs = @ + 1]
           ELSE [@ EXCEPT !.pc = "rulings_get", !.wake = 0, !.rulings_reqs = @ + 1]]
    /\ nsent' = nsent + 1
    /\ last_sent' = now
    /\ UNCHANGED <<upstream_rulings, client, app, ntasks, rate_limit_lock, _card_cache, _rulings_cache, dicts, batch,
                   completed, now, card_done>>

\* Lines 46-61: the record built from the payload.
card_metadata(data) ==
    [name |-> data.name, id |-> data.id, oracle_text |-> data.oracle_text]

\* The ruling without its date.
rule_comment_only(ruling) == ruling.comment

\* Line 95.
rule(ruling) == "[" \o ruling.published_at \o "] " \o ruling.comment

\* Lines 90-96.
clean_rulings(response) ==
    LET data == IF response.has_data THEN response.data ELSE <<>>
    IN [i \in 1..Len(data) |-> rule(data[i])]

\* Every failure of a request reported as the not-found error.
raised_all_as_not_found(response, key) ==
    IF response.kind = "response" /\ response.status_code = 200 /\ response.json_ok
    THEN NoErr
    ELSE [exc |-> "CardFetchError", key |-> key]

\* The status check letting client errors (4xx) through.
raised_on_server_errors_only(response, key) ==
    IF response.kind # "response" THEN [exc |-> response.kind, key |-> ""]
    ELSE IF response.status_code >= 500 THEN [exc |-> "CardFetchError", key |-> key]
    ELSE IF ~response.json_ok THEN [exc |-> "json.JSONDecodeError", key |-> ""]
    ELSE NoErr

\* What client.get, the status check (lines 42-43, 88-89) or response.json()
\* raises for this answer, if anything.
Raised(response, key) ==
    IF response.kind # "response" THEN [exc |-> response.kind, key |-> ""]
    ELSE IF response.status_code # 200 THEN [exc |-> "CardFetchError", key |-> key]
    ELSE IF ~response.json_ok THEN [exc |-> "json.JSONDecodeError", key |-> ""]
    ELSE NoErr

\* A reference for a new dict object: the lowest one not in use.
NewRef == CHOOSE r \in 1..(MaxCalls + 1) : r \notin DOMAIN dicts /\ \A q \in 1..(r - 1) : q \in DOMAIN dicts

\* fetch_full_card going on to the rulings although the card lookup failed.
swallow_card_error(tk, err) ==
    IF tk.op = "fetch_full_card" /\ tk.pc = "card_get"
    THEN [tk EXCEPT !.pc = "rulings_wait", !.card_id = "None"]
    ELSE [tk EXCEPT !.pc = "raised", !.err = err]

\* A failed request tried a second time before the error is raised.
retry_once(tk, err) ==
    IF tk.card_reqs + tk.rulings_reqs < 2
    THEN [tk EXCEPT !.pc = IF tk.pc = "card_get" THEN "card_wait" ELSE "rulings_wait"]
    ELSE [tk EXCEPT !.pc = "raised", !.err = err]

\* An exception raised under `async with` leaves fetch_card_data or
\* fetch_rulings, and fetch_full_card (lines 104-105) with it: nothing
\* catches it.
propagate(tk, err) == [tk EXCEPT !.pc = "raised", !.err = err]

\* The record stored under the name the upstream resolved the query to.
card_cache_key_canonical(card, card_metadata_) == card_metadata_.name

\* Line 63: the key the record is stored under.
card_cache_key(card, card_metadata_) == card

\* The value stored only when the key has none (dict.setdefault).
cache_store_if_absent(cache, key, value) == cache @@ (key :> value)

\* Lines 63 and 98: `cache[key] = value`.
cache_store(cache, key, value) == (key :> value) @@ cache

\* Lines 41-65: the answer to the card request arrives.
CardResponse(t, response) ==
    /\ Settled
    /\ t \in Created
    /\ tasks[t].pc = "card_get"
    /\ LET tk == [tasks[t] EXCEPT !.status_code = response.status_code]
           err == Raised(response, tk.card)
           md == card_metadata(response.data)
       IN IF err # NoErr
          THEN /\ rate_limit_lock' = release(rate_limit_lock)
               /\ Finish(t, propagate(tk, err))
               /\ card_done' = [card_done EXCEPT ![tk.card] = [outcome |-> err.exc, reqs |-> tk.card_reqs]]
               /\ UNCHANGED <<_card_cache, dicts>>
          ELSE /\ _card_cache' = cache_store(_card_cache, card_cache_key(tk.card, md), NewRef)
               /\ card_done' = [card_done EXCEPT ![tk.card] = [outcome |-> "returned", reqs |-> tk.card_reqs]]
               /\ AfterCard(t, tk, NewRef, (NewRef :> md) @@ dicts, release(rate_limit_lock))
    /\ UNCHANGED <<upstream_rulings, client, app, ntasks, _rulings_cache, batch, now, nsent, last_sent>>

\* Lines 87-100: the answer to the rulings request arrives.
RulingsResponse(t, response) ==
    /\ Settled
    /\ t \in Created
    /\ tasks[t].pc = "rulings_get"
    /\ LET tk == [tasks[t] EXCEPT !.status_code = response.status_code]
           err == Raised(response, tk.card_id)
       IN IF err # NoErr
          THEN /\ rate_limit_lock' = release(rate_limit_lock)
               /\ Finish(t, propagate(tk, err))
               /\ UNCHANGED <<_rulings_cache, dicts>>
          ELSE /\ _rulings_cache' = cache_store(_rulings_cache, tk.card_id, clean_rulings(response))
               /\ AfterRulings(t, tk, clean_rulings(response), dicts, release(rate_limit_lock))
    /\ UNCHANGED <<upstream_rulings, client, app, ntasks, _card_cache, batch, now, nsent, last_sent, card_done>>

\* Time passes while a coroutine sleeps or a request is in flight.
Tick ==
    /\ Settled
    /\ \/ \E t \in Created : tasks[t].pc \in {"card_sleep", "rulings_sleep"} /\ now < tasks[t].wake
       \/ /\ \E t \in Created : tasks[t].pc \in {"card_get", "rulings_get"}
          /\ now < last_sent + MaxLatencyMs
    /\ now' = now + TickMs
    /\ UNCHANGED <<upstream_rulings, client, app, tasks, ntasks, rate_limit_lock, _card_cache, _rulings_cache, dicts, batch,
                   completed, nsent, last_sent, card_done>>

\* ---- batch_fetch_card_data

\* The cards lists the callers pass.
CardLists == UNION {[1..n -> CardNames] : n \in 1..MaxBatch}

\* Task i of the batch (line 122), and what it returned.
BatchTask(i) == batch.ids[i]
task_result(t) == tasks[t].card_data

\* Lines 122-132 up to the first await: one task per card is created; the
\* tasks have not run yet.  With no cards, neither gather nor the
\* as_completed loop has anything to wait for.
CallBatch(cards, progress) ==
    /\ Settled
    /\ batch.state = "none"
    /\ ntasks + Len(cards) <= MaxCalls
    /\ Len(cards) <= Cardinality(FreeSlots)
    /\ ntasks' = ntasks + Len(cards)
    /\ LET ids == SubSeq(SlotSeq(FreeSlots), 1, Len(cards)) IN
         /\ tasks' = [t \in TaskIds |->
                IF \E i \in 1..Len(cards) : ids[i] = t
                THEN NewTask("fetch_full_card", cards[CHOOSE i \in 1..Len(cards) : ids[i] = t], "", TRUE)
                ELSE tasks[t]]
         /\ batch' = [NoBatch EXCEPT !.state = IF cards = <<>> THEN "returned" ELSE "awaiting",
                                     !.cards = cards, !.progress = progress, !.ids = ids,
                                     !.all_cached = \A i \in 1..Len(cards) :
                                         /\ cards[i] \in DOMAIN _card_cache
                                         /\ dicts[_card_cache[cards[i]]].id \in DOMAIN _rulings_cache]
    /\ UNCHANGED <<upstream_rulings, client, app, rate_limit_lock, _card_cache, _rulings_cache, dicts, completed, now,
                   nsent, last_sent, card_done>>

\* The results in the order the tasks completed.
gather_as_completed(n) == [i \in 1..n |-> task_result(completed[i])]

\* asyncio.gather(*tasks) when every task has returned: the results, in the
\* order of the tasks.
gather(n) == [i \in 1..n |-> task_result(BatchTask(i))]

\* The tasks still running cancelled with the batch.
sibling_cancelled(tk) == [tk EXCEPT !.pc = "cancelled"]

\* What a failed task of the batch does to the tasks still running, given
\* the frame of one of them: nothing.
sibling_after_failure(tk) == tk

\* Positions in `completed` of the tasks that raised.
RaisedAt == {i \in 1..Len(completed) : tasks[completed[i]].pc = "raised"}

\* Lines 132-134: `await asyncio.gather(*tasks)` resumes, with the first
\* exception a task raised, or with all the results.
Gather ==
    /\ Settled
    /\ batch.state = "awaiting"
    /\ ~batch.progress
    /\ IF RaisedAt # {}
       THEN LET first == CHOOSE i \in RaisedAt : \A j \in RaisedAt : i <= j IN
            /\ batch' = [batch EXCEPT !.state = "raised", !.err = tasks[completed[first]].err]
            /\ tasks' = [t \in TaskIds |->
                   IF tasks[t].in_batch /\ t \notin Finished /\ t \in Created
                   THEN sibling_after_failure(tasks[t]) ELSE tasks[t]]
       ELSE /\ Len(completed) = Len(batch.cards)
            /\ batch' = [batch EXCEPT !.state = "returned", !.data = gather(Len(batch.cards))]
            /\ tasks' = tasks
    /\ UNCHANGED <<upstream_rulings, client, app, ntasks, rate_limit_lock, _card_cache, _rulings_cache, dicts, completed,
                   now, nsent, last_sent, card_done>>

\* The tasks taken in the order they were created.
in_creation_order(i) == BatchTask(i)

\* Line 127: the i-th task asyncio.as_completed(tasks) yields.
as_completed(i) == completed[i]

\* Lines 127-130 and 134: `await task` on the next task as_completed yields
\* resumes; after the last one the loop ends and data is returned.
AsCompleted ==
    /\ Settled
    /\ batch.state = "awaiting"
    /\ batch.progress
    /\ batch.next < Len(completed)
    /\ LET t == as_completed(batch.next + 1) IN
         IF tasks[t].pc = "raised"
         THEN /\ batch' = [batch EXCEPT !.state = "raised", !.err = tasks[t].err,
                                        !.next = @ + 1]
              /\ tasks' = [u \in TaskIds |->
                     IF tasks[u].in_batch /\ u \notin Finished /\ u \in Created
                     THEN sibling_after_failure(tasks[u]) ELSE tasks[u]]
         ELSE /\ batch' = [batch EXCEPT !.data = Append(@, task_result(t)),
                                        !.pbar = @ + 1,
                                        !.next = @ + 1,
                                        !.state = IF batch.next + 1 = Len(batch.cards)
                                                  THEN "returned" ELSE "awaiting"]
              /\ tasks' = tasks
    /\ UNCHANGED <<upstream_rulings, client, app, ntasks, rate_limit_lock, _card_cache, _rulings_cache, dicts, completed,
                   now, nsent, last_sent, card_done>>

\* ---- the service and its callers

Next ==
    \/ \E card \in CardNames : CallFetchCardData(card)
    \/ \E card_id \in CardIds : CallFetchRulings(card_id)
    \/ \E card \in CardNames : CallFetchFullCard(card)
    \/ \E cards \in CardLists : \E progress \in BOOLEAN : CallBatch(cards, progress)
    \/ \E t \in TaskIds : Resume(t)
    \/ \E t \in TaskIds : Start(t)
    \/ \E t \in TaskIds : Wake(t)
    \/ \E t \in TaskIds : Send(t)
    \/ \E t \in TaskIds : \E r \in CardResponses(tasks[t].card) : CardResponse(t, r)
    \/ \E t \in TaskIds : \E r \in RulingsResponses(tasks[t].card_id) : RulingsResponse(t, r)
    \/ Gather
    \/ AsCompleted
    \/ Tick

Spec == Init /\ [][Next]_vars

\* ---- the API surface (api/cards.py) and its process (main.py)

\* GET /cards/search?name=...: search_card runs up to the first await inside
\* `await card_service.fetch_full_card(card=name)` (line 17).
CallSearchCard(name) ==
    /\ app = "running"
    /\ MayCall
    /\ ntasks' = ntasks + 1
    /\ Run(SlotSeq(FreeSlots)[1],
           [NewTask("fetch_full_card", name, "", FALSE) EXCEPT !.caller = "search_card"])
    /\ batch' = batch

\* Lines 17-32 with the ended fetch_full_card in frame tk: an exception
\* leaves search_card (nothing catches it) and the framework answers it with
\* its response for an unhandled error; an empty record gives the 404 of line
\* 19; any other record the CardResponse of lines 21-32.
search_card(name, tk) ==
    IF tk.pc = "raised"
    THEN [status_code |-> 500, detail |-> "Internal Server Error", escaped |-> tk.err.exc]
    ELSE IF DOMAIN dicts[tk.card_data] = {}
    THEN [status_code |-> 404, detail |-> "'" \o name \o "' was not found", escaped |-> ""]
    ELSE [status_code |-> 200, detail |-> dicts[tk.card_data].name, escaped |-> ""]

\* search_card resumes after line 17 and answers the request.
SearchCardResume(t) ==
    /\ t \in Finished
    /\ tasks[t].caller = "search_card"
    /\ tasks' = [tasks EXCEPT ![t] =
           [tasks[t] EXCEPT !.pc = "responded", !.http = search_card(tasks[t].card, tasks[t])]]
    /\ UNCHANGED <<ntasks, rate_limit_lock, _card_cache, _rulings_cache, dicts, batch,
                   completed, now, nsent, last_sent, card_done, upstream_rulings, client, app>>

\* ScryfallService.close() (lines 18-19): `await self.client.aclose()`.  No
\* code of the repository calls it.
close ==
    /\ client' = "closed"
    /\ UNCHANGED <<tasks, ntasks, rate_limit_lock, _card_cache, _rulings_cache, dicts, batch,
                   completed, now, nsent, last_sent, card_done, upstream_rulings, app>>

\* The server stops once the requests it was serving are answered.  main.py
\* registers no shutdown or lifespan handler: nothing runs on the way out.
Shutdown ==
    /\ app = "running"
    /\ Created = {}
    /\ app' = "stopped"
    /\ UNCHANGED <<tasks, ntasks, rate_limit_lock, _card_cache, _rulings_cache, dicts, batch,
                   completed, now, nsent, last_sent, card_done, upstream_rulings, client>>

ApiNext ==
    \/ \E name \in CardNames : CallSearchCard(name)
    \/ \E t \in TaskIds : SearchCardResume(t)
    \/ \E t \in TaskIds : Resume(t)
    \/ \E t \in TaskIds : Wake(t)
    \/ \E t \in TaskIds : Send(t)
    \/ \E t \in TaskIds : \E r \in CardResponses(tasks[t].card) : CardResponse(t, r)
    \/ \E t \in TaskIds : \E r \in RulingsResponses(tasks[t].card_id) : RulingsResponse(t, r)
    \/ Tick
    \/ Shutdown

ApiSpec == Init /\ [][ApiNext]_vars

\* ---- fetch_rulings over every content of the upstream

\* The upstream holds any list of rulings for the card.
RulingsInit ==
    /\ Constructed
    /\ \E l \in RulingLists : upstream_rulings = [ScryfallRulings EXCEPT !["id-sol"] = l]

RulingsNext ==
    \/ \E card_id \in CardIds : CallFetchRulings(card_id)
    \/ \E t \in TaskIds : Resume(t)
    \/ \E t \in TaskIds : Wake(t)
    \/ \E t \in TaskIds : Send(t)
    \/ \E t \in TaskIds : \E r \in RulingsResponses(tasks[t].card_id) : RulingsResponse(t, r)
    \/ Tick

RulingsSpec == RulingsInit /\ [][RulingsNext]_vars

\* The callers pass malformed arguments only.
MalformedNext ==
    \/ \E card \in MalformedNames : CallFetchCardData(card)
    \/ \E card_id \in MalformedIds : CallFetchRulings(card_id)
    \/ \E card \in MalformedNames : CallFetchFullCard(card)
    \/ \E t \in TaskIds : Resume(t)
    \/ \E t \in TaskIds : Wake(t)
    \/ \E t \in TaskIds : Send(t)
    \/ \E t \in TaskIds : \E r \in CardResponses(tasks[t].card) : CardResponse(t, r)
    \/ \E t \in TaskIds : \E r \in RulingsResponses(tasks[t].card_id) : RulingsResponse(t, r)
    \/ Tick

MalformedSpec == Init /\ [][MalformedNext]_vars

\* What the event loop and the upstream do by themselves, once the callers
\* have made their calls.
Progress ==
    \/ \E t \in TaskIds : Resume(t)
    \/ \E t \in TaskIds : Start(t)
    \/ \E t \in TaskIds : Wake(t)
    \/ \E t \in TaskIds : Send(t)
    \/ \E t \in TaskIds : \E r \in CardResponses(tasks[t].card) : CardResponse(t, r)
    \/ \E t \in TaskIds : \E r \in RulingsResponses(tasks[t].card_id) : RulingsResponse(t, r)
    \/ Gather
    \/ AsCompleted
    \/ Tick

\* The event loop runs whatever is ready, the clock advances and the upstream
\* answers every request (with a response, or with a transport failure such as
\* the client's 10 s timeout).
FairSpec == Init /\ [][Next]_vars /\ WF_vars(Progress)

\* Full-card fetches only, alone and in batches, under the same fairness.
FullCardNext ==
    \/ \E card \in CardNames : CallFetchFullCard(card)
    \/ \E cards \in CardLists : \E progress \in BOOLEAN : CallBatch(cards, progress)
    \/ \E t \in TaskIds : Resume(t)
    \/ \E t \in TaskIds : Start(t)
    \/ \E t \in TaskIds : Wake(t)
    \/ \E t \in TaskIds : Send(t)
    \/ \E t \in TaskIds : \E r \in CardResponses(tasks[t].card) : CardResponse(t, r)
    \/ \E t \in TaskIds : \E r \in RulingsResponses(tasks[t].card_id) : RulingsResponse(t, r)
    \/ Gather
    \/ AsCompleted
    \/ Tick

FairFullCardSpec == Init /\ [][FullCardNext]_vars /\ WF_vars(Progress)

\* ---- properties

\* C1: batch_fetch_card_data never raises for the whole operation: a task's
\* failure is captured as that task's entry, and a batch that is over has
\* returned one entry per card.
C1_BatchCapturesEveryOutcome ==
    /\ batch.state # "raised"
    /\ batch.state = "returned" => Len(batch.data) = Len(batch.cards)

\* C2: at most one coroutine is in the gated section (pacing sleep and
\* request) at any time, over both fetch methods, however many fetches are
\* pending; each coroutine in it holds one slot of the semaphore; and every
\* request is sent by the coroutine that holds the gate, which keeps it.
C2_OneInGate ==
    /\ [](/\ Cardinality(InGate) <= 1
          /\ rate_limit_lock + Cardinality(InGate) = SemaphoreSlots)
    /\ [][nsent' # nsent =>
             /\ nsent' = nsent + 1
             /\ locked(rate_limit_lock) /\ locked(rate_limit_lock')
             /\ \E t \in InGate :
                    /\ InGate' = {t}
                    /\ tasks[t].pc \in {"card_sleep", "rulings_sleep"}
                    /\ tasks'[t].pc \in {"card_get", "rulings_get"}
                    /\ tasks'[t].card_reqs + tasks'[t].rulings_reqs
                           = tasks[t].card_reqs + tasks[t].rulings_reqs + 1
                    /\ \A u \in TaskIds \ {t} : tasks'[u] = tasks[u]]_vars

\* A request is in flight while another fetch waits for the gate.
C2_Witness ==
    \E t \in InGate, u \in Waiters :
        /\ tasks[t].pc \in {"card_get", "rulings_get"}
        /\ tasks[u].pc = "rulings_wait"

\* C3: a populated cache key keeps its value for good: no step removes it,
\* replaces it or modifies the stored value, and a card-cache entry is a
\* record without rulings.
C3_WriteOnce ==
    [][/\ \A c \in DOMAIN _card_cache :
             /\ c \in DOMAIN _card_cache'
             /\ _card_cache'[c] = _card_cache[c]
             /\ dicts'[_card_cache[c]] = dicts[_card_cache[c]]
       /\ \A id \in DOMAIN _rulings_cache :
             /\ id \in DOMAIN _rulings_cache'
             /\ _rulings_cache'[id] = _rulings_cache[id]
       /\ \A c \in DOMAIN _card_cache' :
             "rulings" \notin DOMAIN dicts'[_card_cache'[c]]]_vars

\* The coroutines that have entered fetch_card_data, directly or through
\* fetch_full_card.
CardCalls ==
    {t \in Created : tasks[t].op \in {"fetch_card_data", "fetch_full_card"} /\ tasks[t].pc # "called"}

\* C4, as claimed: a call of fetch_card_data(name) made after an earlier call
\* for the same name has ended issues, together with that call, at most one
\* upstream request.
C4_AtMostOneRequestInTwoCalls ==
    \A t \in CardCalls :
        tasks[t].prior.outcome # "none" => tasks[t].prior.reqs + tasks[t].card_reqs <= 1

\* C4, amended: a call of fetch_card_data(name) made after an earlier call for
\* the same name has returned its record is a cache hit: it never waits for
\* the gate, never holds it, issues no request, and returns the stored record.
C4_HitAfterSuccessfulCall ==
    \A t \in CardCalls :
        tasks[t].prior.outcome = "returned" =>
            /\ tasks[t].card_reqs = 0
            /\ tasks[t].pc \notin {"card_wait", "card_sleep", "card_get"}
            /\ tasks[t].card_data # 0
            /\ (t \in Resuming /\ tasks[t].op = "fetch_card_data") =>
                   tasks[t].card_data = _card_cache[tasks[t].card]

\* A second fetch_card_data(name) has returned without a request, after a
\* first one that issued one.
C4_Witness ==
    \E t \in Resuming :
        /\ tasks[t].op = "fetch_card_data"
        /\ tasks[t].prior = [outcome |-> "returned", reqs |-> 1]
        /\ tasks[t].pc = "returned"
        /\ tasks[t].card_reqs = 0

\* C5: a batch whose cards were all cached at the call, with their rulings,
\* issues no request and never waits for or holds the gate: each task returns
\* in the step it starts in, and the batch returns one result per card.
C5_AllCachedBatch ==
    batch.all_cached =>
        /\ batch.state \in {"awaiting", "returned"}
        /\ \A i \in 1..Len(batch.ids) :
               /\ tasks[BatchTask(i)].pc \in {"called", "returned"}
               /\ tasks[BatchTask(i)].card_reqs = 0
               /\ tasks[BatchTask(i)].rulings_reqs = 0
        /\ batch.state = "returned" => Len(batch.data) = Len(batch.cards)

\* A batch of two cached cards has returned, in progress mode.
C5_Witness ==
    /\ batch.all_cached
    /\ batch.progress
    /\ batch.state = "returned"
    /\ Len(batch.data) = 2

\* C6: without progress, the list a batch returns has one entry per card, and
\* entry i is what the task of cards[i] returned.
C6_GatherKeepsInputOrder ==
    (batch.state = "returned" /\ ~batch.progress) =>
        /\ Len(batch.data) = Len(batch.cards)
        /\ \A i \in 1..Len(batch.cards) :
               /\ tasks[BatchTask(i)].card = batch.cards[i]
               /\ tasks[BatchTask(i)].pc = "returned"
               /\ batch.data[i] = tasks[BatchTask(i)].card_data
               /\ batch.data[i] \in DOMAIN dicts

\* A batch without progress has returned two different records whose tasks
\* completed in the reverse of the input order.
C6_Witness ==
    /\ batch.state = "returned"
    /\ ~batch.progress
    /\ Len(batch.cards) = 2
    /\ completed = <<BatchTask(2), BatchTask(1)>>
    /\ batch.data[1] # batch.data[2]

\* C7: a fetch_full_card whose card lookup has not produced a record never
\* issues a rulings request nor enters fetch_rulings, and when the lookup
\* failed the call has raised the lookup's error, after its one request.
C7_NoRulingsAfterFailedLookup ==
    \A t \in Created :
        (tasks[t].op = "fetch_full_card" /\ tasks[t].card_data = 0) =>
            /\ tasks[t].rulings_reqs = 0
            /\ tasks[t].pc \in {"called", "card_wait", "card_sleep", "card_get", "raised"}
            /\ tasks[t].pc = "raised" =>
                   /\ tasks[t].card_reqs = 1
                   /\ tasks[t].err \in {[exc |-> "CardFetchError", key |-> tasks[t].card],
                                        [exc |-> "httpx.TransportError", key |-> ""],
                                        [exc |-> "json.JSONDecodeError", key |-> ""]}
                   /\ tasks[t].err.exc = "CardFetchError" <=> tasks[t].status_code \notin {0, 200}

\* A fetch_full_card has failed on a non-success status of the card lookup.
C7_Witness ==
    \E t \in Created :
        /\ tasks[t].op = "fetch_full_card"
        /\ tasks[t].pc = "raised"
        /\ tasks[t].card_data = 0
        /\ tasks[t].status_code = 404

\* C8: pacing is enforced.  Any request is sent at least the fixed delay
\* after the one before it, and the n-th request of the client is sent no
\* earlier than n fixed delays after the client was made (clock 0).
C8_Pacing ==
    /\ [](nsent * rate_limit_ms <= last_sent)
    /\ [][(nsent' # nsent /\ nsent >= 1) => last_sent' - last_sent >= rate_limit_ms]_vars

\* Three requests have been sent while two fetches were pending together.
C8_Witness ==
    /\ nsent = 3
    /\ InGate # {}
    /\ Waiters # {}

\* The tasks of the batch.
BatchTasks == {t \in Created : tasks[t].in_batch}

\* C9: a failed task of a batch does not cancel its siblings.  Once a task of
\* the batch has raised, every task of the batch runs to its own completion
\* (returns or raises), in both progress modes, whether or not the batch has
\* raised meanwhile; a batch task that has returned has its card in the card
\* cache and its record's id in the rulings cache.
C9_SiblingsRunToCompletion ==
    /\ [](\A t \in BatchTasks :
             tasks[t].pc = "returned" =>
                 /\ tasks[t].card \in DOMAIN _card_cache
                 /\ tasks[t].card_id \in DOMAIN _rulings_cache
                 /\ "rulings" \in DOMAIN dicts[tasks[t].card_data])
    /\ \A t \in TaskIds :
           (t \in BatchTasks /\ \E u \in BatchTasks : tasks[u].pc = "raised")
               ~> (t \in Finished)

\* The batch has raised on its first task, in progress mode, and the second
\* task has completed after it, with its two requests, and filled the caches.
C9_Witness ==
    /\ batch.state = "raised"
    /\ batch.progress
    /\ Len(completed) = 2
    /\ tasks[completed[1]].pc = "raised"
    /\ tasks[completed[2]].pc = "returned"
    /\ tasks[completed[2]].card_reqs = 1
    /\ tasks[completed[2]].rulings_reqs = 1
    /\ tasks[completed[2]].card \in DOMAIN _card_cache

\* The coroutines that have received a non-success status.
NonSuccess == {t \in Created : tasks[t].status_code \notin {0, 200}}

\* C10: a fetch answered with a non-success status has raised CardFetchError
\* for its key after exactly one request to that endpoint (no retry), the
\* step in which it fails leaves both caches and the cached records as they
\* were, and a later fetch_card_data for a name whose latest fetch failed
\* that way, the name still not cached, has not returned without a request of
\* its own.
C10_NonSuccessRaisesOnce ==
    /\ [](\A t \in NonSuccess :
             /\ tasks[t].pc = "raised"
             /\ tasks[t].err.exc = "CardFetchError"
             /\ IF tasks[t].op = "fetch_rulings" \/ tasks[t].card_data # 0
                THEN tasks[t].err.key = tasks[t].card_id /\ tasks[t].rulings_reqs = 1
                ELSE /\ tasks[t].err.key = tasks[t].card
                     /\ tasks[t].card_reqs = 1
                     /\ tasks[t].rulings_reqs = 0)
    /\ [](\A t \in CardCalls :
             (tasks[t].prior.outcome = "CardFetchError" /\ tasks[t].card_reqs = 0) =>
                 \/ tasks[t].pc \in {"card_wait", "card_sleep"}
                 \/ tasks[t].prior.reqs = 1 /\ tasks[t].card \in DOMAIN _card_cache)
    /\ [][\A t \in TaskIds :
             (tasks'[t].pc = "raised" /\ tasks[t].pc # "raised"
                  /\ tasks'[t].status_code \notin {0, 200}) =>
                 /\ _card_cache' = _card_cache
                 /\ _rulings_cache' = _rulings_cache
                 /\ dicts' = dicts]_vars

\* A fetch_card_data whose name's previous fetch failed on a non-success
\* status after one request has itself gone upstream once and failed the same
\* way, the name still not cached.
C10_Witness ==
    \E t \in Resuming :
        /\ tasks[t].op = "fetch_card_data"
        /\ tasks[t].prior = [outcome |-> "CardFetchError", reqs |-> 1]
        /\ tasks[t].pc = "raised"
        /\ tasks[t].status_code = 404
        /\ tasks[t].card_reqs = 1
        /\ tasks[t].card \notin DOMAIN _card_cache

\* The coroutines called with a malformed argument.
MalformedCalls ==
    {t \in Created : IF tasks[t].op = "fetch_rulings"
                     THEN tasks[t].card_id \in MalformedIds
                     ELSE tasks[t].card \in MalformedNames}

\* C11: a call of fetch_card_data, fetch_rulings or fetch_full_card with a
\* malformed argument is rejected with a ValidationError at once: it never
\* waits for the gate, never holds it and issues no request.
C11_MalformedInputRejected ==
    \A t \in MalformedCalls :
        /\ tasks[t].pc = "raised"
        /\ tasks[t].err.exc = "ValidationError"
        /\ tasks[t].card_reqs = 0
        /\ tasks[t].rulings_reqs = 0

\* C12: a request that got no response (timeout, network failure) or an
\* undecodable body makes the fetch fail with the library's transport or
\* decoding error, never with CardFetchError; CardFetchError is raised for a
\* non-success status and for nothing else.
C12_TransportErrorsDistinct ==
    \A t \in Created :
        tasks[t].pc = "raised" =>
            /\ tasks[t].status_code = 0 => tasks[t].err = [exc |-> "httpx.TransportError", key |-> ""]
            /\ tasks[t].status_code = 200 => tasks[t].err = [exc |-> "json.JSONDecodeError", key |-> ""]
            /\ tasks[t].err.exc = "CardFetchError" <=> tasks[t].status_code \notin {0, 200}
            /\ tasks[t].card_reqs + tasks[t].rulings_reqs >= 1

\* One task of a batch has failed on a request without response, the other
\* on an undecodable rulings body.
C12_Witness ==
    \E t, u \in BatchTasks :
        /\ tasks[t].pc = "raised" /\ tasks[t].err.exc = "httpx.TransportError"
        /\ tasks[u].pc = "raised" /\ tasks[u].err.exc = "json.JSONDecodeError"
        /\ tasks[u].rulings_reqs = 1

\* C13: search_card answers a lookup that failed with CardFetchError by a
\* "not found" response (404) that embeds the queried name, any other error
\* by a generic failure response, and a record by a success; CardFetchError
\* never leaves search_card untranslated.
C13_SearchTranslatesErrors ==
    \A t \in Responded :
        /\ tasks[t].err.exc = "CardFetchError" =>
               tasks[t].http = [status_code |-> 404,
                                detail |-> "'" \o tasks[t].card \o "' was not found",
                                escaped |-> ""]
        /\ tasks[t].err.exc \notin {"", "CardFetchError"} => tasks[t].http.status_code = 500
        /\ tasks[t].err.exc = "" => tasks[t].http.status_code = 200
        /\ tasks[t].http.escaped # "CardFetchError"

\* C15: when the process that owns the client has stopped, the client has
\* been closed; and the client is closed only when no fetch is in progress,
\* so no request follows close().
C15_ClosedOnceOnExit ==
    /\ app = "stopped" => client = "closed"
    /\ client = "closed" => Created \ Responded = {}

\* The text of each ruling entry, written out.
Formatted(ruling) ==
    CASE ruling = [published_at |-> "2020-01-01", comment |-> "c1"] -> "[2020-01-01] c1"
      [] ruling = [published_at |-> "2020-01-01", comment |-> "c2"] -> "[2020-01-01] c2"
      [] ruling = [published_at |-> "2021-06-18", comment |-> "c1"] -> "[2021-06-18] c1"
      [] ruling = [published_at |-> "2021-06-18", comment |-> "c2"] -> "[2021-06-18] c2"

\* C14: for every id and every list of rulings the upstream holds, the list a
\* successful fetch_rulings returns, and the one it caches, has the length of
\* the upstream's and "[date] comment" of the upstream's i-th entry as its
\* i-th element; an upstream without entries gives the empty list, cached,
\* and no fetch fails but on a failed request or an undecodable body.
C14_RulingsFormat ==
    /\ \A id \in DOMAIN _rulings_cache :
           /\ Len(_rulings_cache[id]) = Len(upstream_rulings[id])
           /\ \A i \in 1..Len(upstream_rulings[id]) :
                  _rulings_cache[id][i] = Formatted(upstream_rulings[id][i])
    /\ \A t \in Created :
           tasks[t].op = "fetch_rulings" =>
               /\ tasks[t].pc = "returned" =>
                      /\ tasks[t].card_id \in DOMAIN _rulings_cache
                      /\ tasks[t].rulings = _rulings_cache[tasks[t].card_id]
               /\ tasks[t].pc = "raised" =>
                      tasks[t].status_code # 200 \/ tasks[t].err.exc = "json.JSONDecodeError"

\* Both ids are cached: two rulings with different dates and comments in
\* upstream order for one, the empty list for the other, and a fetch_rulings
\* has just returned the empty list after its request.
C14_Witness ==
    /\ upstream_rulings["id-sol"] = <<[published_at |-> "2021-06-18", comment |-> "c1"],
                                      [published_at |-> "2020-01-01", comment |-> "c2"]>>
    /\ DOMAIN _rulings_cache = CardIds
    /\ _rulings_cache["id-sol"] = <<"[2021-06-18] c1", "[2020-01-01] c2">>
    /\ \E t \in Resuming :
           /\ tasks[t].card_id = "id-opt"
           /\ tasks[t].pc = "returned"
           /\ tasks[t].rulings_reqs = 1
           /\ tasks[t].rulings = <<>>

\* C16: with progress, the results are appended in the order the tasks
\* completed, the progress counter is at every point the number of results
\* collected, a batch that has returned holds one result per card with the
\* counter at that number, and the batch raises only on a task that raised.
C16_ProgressInCompletionOrder ==
    batch.progress =>
        /\ batch.pbar = Len(batch.data)
        /\ batch.next <= Len(completed)
        /\ Len(batch.data) <= batch.next
        /\ \A i \in 1..Len(batch.data) :
               /\ tasks[completed[i]].pc = "returned"
               /\ batch.data[i] = tasks[completed[i]].card_data
               /\ "rulings" \in DOMAIN dicts[batch.data[i]]
        /\ batch.state = "returned" =>
               /\ Len(batch.data) = Len(batch.cards)
               /\ batch.pbar = Len(batch.cards)
        /\ batch.state = "raised" => tasks[completed[batch.next]].pc = "raised"

\* A batch with progress has returned the records of its two cards, the
\* second card's first, with the counter at 2.
C16_Witness ==
    /\ batch.progress
    /\ batch.state = "returned"
    /\ Len(batch.cards) = 2
    /\ completed = <<BatchTask(2), BatchTask(1)>>
    /\ batch.data = <<tasks[BatchTask(2)].card_data, tasks[BatchTask(1)].card_data>>
    /\ batch.data[1] # batch.data[2]
    /\ batch.pbar = 2

\* The coroutines that start running in this step.
Entering(t) == tasks[t].pc \in {"none", "called"} /\ tasks'[t].pc \notin {"none", "called"}

\* C17: a fetch issues exactly one request per cache miss and none on a hit.
\* A coroutine sends a request only at the end of its pacing sleep, one per
\* visit of the gate; it visits the card gate exactly when the name is not
\* cached as it starts, once; fetch_rulings visits the rulings gate exactly
\* when the id is not cached as it starts; and fetch_full_card, in the step
\* it obtains its record, goes on to the rulings gate exactly when the
\* record's id is not in the rulings cache, and returns at once otherwise.
C17_OneRequestPerMiss ==
    /\ [](\A t \in Created :
             /\ tasks[t].pc \in {"card_wait", "card_sleep"} =>
                    tasks[t].card_reqs = 0 /\ tasks[t].rulings_reqs = 0 /\ tasks[t].card_data = 0
             /\ tasks[t].pc = "card_get" =>
                    tasks[t].card_reqs = 1 /\ tasks[t].rulings_reqs = 0 /\ tasks[t].card_data = 0
             /\ tasks[t].pc \in {"rulings_wait", "rulings_sleep"} => tasks[t].rulings_reqs = 0
             /\ tasks[t].pc = "rulings_get" => tasks[t].rulings_reqs = 1
             /\ tasks[t].pc \in {"returned", "raised", "responded"} =>
                    tasks[t].card_reqs <= 1 /\ tasks[t].rulings_reqs <= 1)
    /\ [][\A t \in TaskIds :
             /\ (Entering(t) /\ tasks'[t].op # "fetch_rulings") =>
                    IF tasks'[t].card \in DOMAIN _card_cache
                    THEN tasks'[t].card_data # 0 /\ tasks'[t].card_reqs = 0
                    ELSE tasks'[t].pc \in {"card_wait", "card_sleep"}
             /\ (Entering(t) /\ tasks'[t].op = "fetch_rulings") =>
                    IF tasks'[t].card_id \in DOMAIN _rulings_cache
                    THEN tasks'[t].pc = "returned" /\ tasks'[t].rulings_reqs = 0
                    ELSE tasks'[t].pc \in {"rulings_wait", "rulings_sleep"}
             /\ (tasks[t].op = "fetch_full_card" /\ tasks[t].card_data = 0
                    /\ tasks'[t].op = "fetch_full_card" /\ tasks'[t].card_data # 0) =>
                    IF tasks'[t].card_id \in DOMAIN _rulings_cache
                    THEN tasks'[t].pc = "returned" /\ tasks'[t].rulings_reqs = 0
                    ELSE tasks'[t].pc \in {"rulings_wait", "rulings_sleep"}
             /\ (tasks[t].pc \in {"card_get", "rulings_get"} /\ tasks'[t].pc # tasks[t].pc) =>
                    /\ tasks'[t].pc \notin {"card_wait", "card_sleep"}
                    /\ tasks[t].pc = "rulings_get" => tasks'[t].pc \in {"returned", "raised"}
                    /\ tasks'[t].card_reqs = tasks[t].card_reqs
                    /\ tasks'[t].rulings_reqs = tasks[t].rulings_reqs]_vars

\* Alone on the client, a fetch_full_card of an uncached name whose id's
\* rulings were cached has returned after its one card request and no
\* rulings request.
C17_Witness ==
    \E t \in Resuming :
        /\ Created = {t}
        /\ tasks[t].op = "fetch_full_card"
        /\ tasks[t].pc = "returned"
        /\ tasks[t].card_reqs = 1
        /\ tasks[t].rulings_reqs = 0

\* C18: the card cache is keyed by the query string as given.  A coroutine
\* that holds a record has its own query string in the cache; a key enters
\* the cache only as the query string of the coroutine whose request was
\* answered in that step, whatever name the upstream resolved it to; a
\* coroutine whose string is not cached waits for the gate although another
\* spelling of the same card is cached; and the records of all spellings
\* carry the one id the rulings cache is keyed by.
C18_KeyedByQueryString ==
    /\ [](\A t \in CardCalls : tasks[t].card_data # 0 => tasks[t].card \in DOMAIN _card_cache)
    /\ [](\A c \in DOMAIN _card_cache :
             /\ dicts[_card_cache[c]].id = Named(c).id
             /\ \A id \in DOMAIN _rulings_cache :
                    id \in CardIds /\ (id = Named(c).id \/ id \notin {Named(x).id : x \in CardNames}))
    /\ [][/\ \A c \in DOMAIN _card_cache' \ DOMAIN _card_cache :
                 \E t \in TaskIds : /\ tasks[t].pc = "card_get"
                                     /\ tasks[t].card = c
                                     /\ tasks'[t].card_data = _card_cache'[c]
          /\ \A t \in TaskIds :
                 (Entering(t) /\ tasks'[t].op # "fetch_rulings"
                      /\ tasks'[t].card \notin DOMAIN _card_cache) =>
                     tasks'[t].pc \in {"card_wait", "card_sleep"}]_vars

\* With "sol ring" cached, fetch_card_data("Sol Ring"), the canonical name,
\* has made a request of its own and returned a record of its own; the cache
\* holds both keys and the rulings cache the one id.
C18_Witness ==
    \E t \in Resuming :
        /\ tasks[t].op = "fetch_card_data"
        /\ tasks[t].card = "Sol Ring"
        /\ tasks[t].pc = "returned"
        /\ tasks[t].card_reqs = 1
        /\ DOMAIN _card_cache = {"sol ring", "Sol Ring"}
        /\ _card_cache["sol ring"] < _card_cache["Sol Ring"]
        /\ tasks[t].card_data = _card_cache["Sol Ring"]
        /\ DOMAIN _rulings_cache = {"id-sol"}

\* The fields of a record fetch_card_data builds.
MetadataFields == {"name", "id", "oracle_text"}

\* C19: concurrent fetches of one uncached key are not coalesced.  A
\* coroutine that waited for the gate never looks at the cache again: it
\* leaves the wait only into the pacing sleep and the sleep only by sending
\* its request, cached or not by then.  Each successful answer writes the
\* cache: after the step the entry is the record of the coroutine answered
\* last (the later write wins), and, the upstream giving the same payload, a
\* record that replaces another equals it field by field.
C19_NoCoalescing ==
    [][\A t \in TaskIds :
          /\ (tasks[t].pc = "card_wait" /\ tasks'[t].pc # "card_wait") => tasks'[t].pc = "card_sleep"
          /\ (tasks[t].pc = "card_sleep" /\ tasks'[t].pc # "card_sleep") =>
                 tasks'[t].pc = "card_get" /\ nsent' = nsent + 1
          /\ (tasks[t].pc = "card_get" /\ tasks'[t].card_data # 0) =>
                 /\ tasks[t].card \in DOMAIN _card_cache'
                 /\ _card_cache'[tasks[t].card] = tasks'[t].card_data
                 /\ tasks'[t].card_data \notin DOMAIN dicts
                 /\ tasks[t].card \in DOMAIN _card_cache =>
                        \A f \in MetadataFields :
                            dicts'[_card_cache'[tasks[t].card]][f] = dicts[_card_cache[tasks[t].card]][f]
          /\ (tasks[t].pc = "rulings_get" /\ tasks'[t].pc = "returned") =>
                 /\ tasks[t].card_id \in DOMAIN _rulings_cache'
                 /\ tasks[t].card_id \in DOMAIN _rulings_cache =>
                        _rulings_cache'[tasks[t].card_id] = _rulings_cache[tasks[t].card_id]]_vars

\* Two tasks of a batch for the same uncached name have each made a card
\* request and hold two records; the cache has that of the second to be
\* answered.
C19_Witness ==
    /\ Len(batch.cards) = 2
    /\ batch.cards[1] = batch.cards[2]
    /\ tasks[BatchTask(1)].card_reqs = 1
    /\ tasks[BatchTask(2)].card_reqs = 1
    /\ tasks[BatchTask(1)].card_data # 0
    /\ tasks[BatchTask(2)].card_data # 0
    /\ tasks[BatchTask(1)].card_data # tasks[BatchTask(2)].card_data
    /\ _card_cache[batch.cards[1]] = tasks[BatchTask(2)].card_data

\* C20: the gate is released on every exit of the gated section.  When the
\* gate is locked a coroutine that has not finished is in the gated section;
\* the step in which a coroutine ends inside the section, by return or by
\* any error, leaves the gate free; and so, under fair scheduling and an
\* upstream that answers or times out, every coroutine waiting for the gate
\* gets it and every batch_fetch_card_data call ends.
C20_GateReleasedOnEveryExit ==
    /\ [](locked(rate_limit_lock) => InGate \ Finished # {})
    /\ [][\A t \in TaskIds :
             (tasks[t].pc \in {"card_get", "rulings_get"}
                  /\ tasks'[t].pc \in {"returned", "raised"}) =>
                 ~locked(rate_limit_lock')]_vars
    /\ \A t \in TaskIds :
           (t \in Waiters) ~> (tasks[t].pc \in {"card_sleep", "rulings_sleep"})
    /\ (batch.state = "awaiting") ~> (batch.state \in {"returned", "raised"})

\* The first task of a batch has failed on a non-success status of its card
\* request while the second waited for the gate, and the second now holds it.
C20_Witness ==
    /\ Len(batch.cards) = 2
    /\ tasks[BatchTask(1)].pc = "raised"
    /\ tasks[BatchTask(1)].err.exc = "CardFetchError"
    /\ tasks[BatchTask(1)].card_reqs = 1
    /\ tasks[BatchTask(2)].pc = "card_sleep"
    /\ locked(rate_limit_lock)

====
